---- MODULE Spec2Model ----
(***************************************************************************)
(* Model of the JobTracker backend (src/server.js): the record store, the  *)
(* create / sync / update / delete request handlers and the WebSocket      *)
(* broadcast hub.  Every handler is split at its `await` points: one       *)
(* action per store operation taking effect, the synchronous code that     *)
(* follows an await belonging to the step that runs it.                    *)
(*                                                                         *)
(* Texts are sequences of one-character strings.  Documents are functions  *)
(* from field names to values, so that an absent field is a field that is  *)
(* not in the DOMAIN of the document.  Only the fields the handlers        *)
(* inspect or compute are carried (id, company, position, jobUrl,          *)
(* description, createdAt, updatedAt); location, salary, appliedDate,      *)
(* status and notes are copied through by the code and never read back.    *)
(***************************************************************************)
EXTENDS Integers, Sequences, FiniteSets, TLC

VARIABLES store,      \* applicationsCollection, in natural (insertion) order
          now,        \* the server clock read by new Date()
          nextUuid,   \* the next identifier uuidv4() hands out
          opCount,    \* number of requests accepted so far
          req,        \* per request slot: position in its handler and locals
          resp,       \* per request slot: the last response sent
          clients,    \* wss.clients, in insertion order
          ws,         \* per observer: readyState, handler position, snapshot
          inbox,      \* per observer: the messages delivered to it
          published   \* the events handed to broadcast, in order

vars == <<store, now, nextUuid, opCount, req, resp, clients, ws, inbox, published>>

(***************************************************************************)
(* Bounds                                                                  *)
(***************************************************************************)
MaxOps == 2
MaxHubOps == 1
MaxTime == 1
MaxReq == 2
MaxObs == 2

Slots == 1..MaxReq
Observers == 1..MaxObs

(***************************************************************************)
(* Texts                                                                   *)
(***************************************************************************)
Lower(c) == IF c = "A" THEN "a" ELSE IF c = "P" THEN "p" ELSE c

LowerText(t) == [i \in 1..Len(t) |-> Lower(t[i])]

RECURSIVE TrimLeft(_)
TrimLeft(t) == IF t # <<>> /\ Head(t) = " " THEN TrimLeft(Tail(t)) ELSE t

RECURSIVE TrimRight(_)
TrimRight(t) ==
    IF t # <<>> /\ t[Len(t)] = " " THEN TrimRight(SubSeq(t, 1, Len(t) - 1)) ELSE t

Trim(t) == TrimRight(TrimLeft(t))

(* new RegExp(`^${text}$`, 'i'): the text is spliced into the pattern      *)
(* unescaped, so "." is the wildcard and "?" the optional quantifier (a    *)
(* second "?" makes it lazy).  A quantifier with nothing to repeat is a    *)
(* SyntaxError thrown by the RegExp constructor.                           *)
RECURSIVE RegexValid(_)
RegexValid(p) ==
    IF p = <<>> THEN TRUE
    ELSE IF p[1] = "?" THEN FALSE
    ELSE IF Len(p) >= 3 /\ p[2] = "?" /\ p[3] = "?" THEN RegexValid(SubSeq(p, 4, Len(p)))
    ELSE IF Len(p) >= 2 /\ p[2] = "?" THEN RegexValid(SubSeq(p, 3, Len(p)))
    ELSE RegexValid(Tail(p))

AtomMatch(a, c) == a = "." \/ Lower(a) = Lower(c)

RECURSIVE RegexMatch(_, _)
RegexMatch(p, t) ==
    IF p = <<>> THEN t = <<>>
    ELSE IF Len(p) >= 2 /\ p[2] = "?"
         THEN LET rest == IF Len(p) >= 3 /\ p[3] = "?"
                          THEN SubSeq(p, 4, Len(p)) ELSE SubSeq(p, 3, Len(p))
              IN  \/ RegexMatch(rest, t)
                  \/ t # <<>> /\ AtomMatch(p[1], t[1]) /\ RegexMatch(rest, Tail(t))
         ELSE t # <<>> /\ AtomMatch(p[1], t[1]) /\ RegexMatch(Tail(p), Tail(t))

(***************************************************************************)
(* Documents                                                               *)
(***************************************************************************)
Has(d, f) == f \in DOMAIN d

(* { ...a, ...b }: the fields of b override those of a *)
Merge(a, b) == [f \in (DOMAIN a) \cup (DOMAIN b) |-> IF f \in DOMAIN b THEN b[f] ELSE a[f]]

(* (x || '') for a text field of a request body *)
OrEmpty(d, f) == IF Has(d, f) THEN d[f] ELSE <<>>

(* the null a findOne without a match resolves to: a document with none  *)
(* of the fields of an application                                        *)
Null == [isNull |-> TRUE]
IsNull(d) == Has(d, "isNull")

Min(S) == CHOOSE x \in S : \A y \in S : x <= y

(* index of the first document with a given id, 0 when there is none:    *)
(* findOne, updateOne and deleteOne with the filter { id } act on that one *)
IndexOfId(s, id) ==
    LET I == {i \in 1..Len(s) : Has(s[i], "id") /\ s[i].id = id}
    IN  IF I = {} THEN 0 ELSE Min(I)

RemoveAt(s, i) == SubSeq(s, 1, i - 1) \o SubSeq(s, i + 1, Len(s))

(* the documents whose id is not in a set, order kept:                    *)
(* list.filter(app => !ids.has(app.id)); app.id of a document without an  *)
(* id is undefined, which the Set holds exactly when some mapped document *)
(* had no id either                                                       *)
RECURSIVE FilterNotIn(_, _, _)
FilterNotIn(s, ids, hasUndefined) ==
    IF s = <<>> THEN <<>>
    ELSE LET d == Head(s)
             inSet == IF Has(d, "id") THEN d.id \in ids ELSE hasUndefined
         IN  (IF inSet THEN <<>> ELSE <<d>>) \o FilterNotIn(Tail(s), ids, hasUndefined)

HasUndefinedId(s) == \E i \in 1..Len(s) : ~Has(s[i], "id")

IdOf(d) == IF Has(d, "id") THEN {d.id} ELSE {}

IdSet(s) == UNION {IdOf(s[i]) : i \in 1..Len(s)}

(* find({}).sort({ createdAt: -1 }).toArray(): newest first, documents of  *)
(* equal createdAt in natural order                                        *)
RECURSIVE InsertDesc(_, _)
InsertDesc(sorted, d) ==
    IF sorted = <<>> THEN <<d>>
    ELSE IF Head(sorted).createdAt >= d.createdAt
         THEN <<Head(sorted)>> \o InsertDesc(Tail(sorted), d)
         ELSE <<d>> \o sorted

RECURSIVE SortedFind(_)
SortedFind(s) ==
    IF s = <<>> THEN <<>>
    ELSE InsertDesc(SortedFind(SubSeq(s, 1, Len(s) - 1)), s[Len(s)])

(***************************************************************************)
(* Description Normalizer (formatJobDescription)                           *)
(*                                                                         *)
(* A description is a sequence of characters.  The line feed is "\n"; the  *)
(* bullet glyphs are written by name: "BULLET" is U+2022 and "MIDDOT" is   *)
(* U+00B7, one character each.                                             *)
(***************************************************************************)
NL == "\n"

(* \s of the regular expressions and the characters trim() strips *)
IsSpace(c) == c \in {" ", "\n", "\t"}

UpperCase ==
    <<"A", "B", "C", "D", "E", "F", "G", "H", "I", "J", "K", "L", "M",
      "N", "O", "P", "Q", "R", "S", "T", "U", "V", "W", "X", "Y", "Z">>

LowerCase ==
    <<"a", "b", "c", "d", "e", "f", "g", "h", "i", "j", "k", "l", "m",
      "n", "o", "p", "q", "r", "s", "t", "u", "v", "w", "x", "y", "z">>

ToLowerCase(c) ==
    IF \E i \in 1..26 : UpperCase[i] = c
    THEN LowerCase[CHOOSE i \in 1..26 : UpperCase[i] = c]
    ELSE c

ToUpperCase(c) ==
    IF \E i \in 1..26 : LowerCase[i] = c
    THEN UpperCase[CHOOSE i \in 1..26 : LowerCase[i] = c]
    ELSE c

(* the section headers of the two keyword expressions, in their order *)
SectionHeaders ==
    << <<"r", "e", "s", "p", "o", "n", "s", "i", "b", "i", "l", "i", "t", "i", "e", "s">>,
       <<"r", "e", "q", "u", "i", "r", "e", "m", "e", "n", "t", "s">>,
       <<"q", "u", "a", "l", "i", "f", "i", "c", "a", "t", "i", "o", "n", "s">>,
       <<"s", "k", "i", "l", "l", "s">>,
       <<"b", "e", "n", "e", "f", "i", "t", "s">>,
       <<"a", "b", "o", "u", "t">> >>

(* the text starts with the word, letter case ignored (flag i) *)
StartsWithWord(t, w) ==
    /\ Len(t) >= Len(w)
    /\ \A i \in 1..Len(w) : ToLowerCase(t[i]) = w[i]

(* length of the section header the text starts with, the first           *)
(* alternative that matches; 0 when none does                              *)
HeaderAt(t) ==
    LET K == {k \in 1..Len(SectionHeaders) : StartsWithWord(t, SectionHeaders[k])}
    IN  IF K = {} THEN 0 ELSE Len(SectionHeaders[Min(K)])

RECURSIVE DropSpace(_)
DropSpace(t) == IF t # <<>> /\ IsSpace(Head(t)) THEN DropSpace(Tail(t)) ELSE t

(* .replace(/\s+/g, ' ') *)
RECURSIVE CollapseSpace(_)
CollapseSpace(t) ==
    IF t = <<>> THEN <<>>
    ELSE IF IsSpace(Head(t)) THEN <<" ">> \o CollapseSpace(DropSpace(t))
    ELSE <<Head(t)>> \o CollapseSpace(Tail(t))

(* .trim() of a description: white space of every kind goes *)
RECURSIVE TrimSpaceRight(_)
TrimSpaceRight(t) ==
    IF t # <<>> /\ IsSpace(t[Len(t)]) THEN TrimSpaceRight(SubSeq(t, 1, Len(t) - 1)) ELSE t

TrimSpace(t) == TrimSpaceRight(DropSpace(t))

(* .replace(/(responsibilities|...|about)/gi, '\n\n$1') *)
RECURSIVE BreakBeforeHeaders(_)
BreakBeforeHeaders(t) ==
    IF t = <<>> THEN <<>>
    ELSE LET n == HeaderAt(t)
         IN  IF n > 0
             THEN <<NL, NL>> \o SubSeq(t, 1, n)
                      \o BreakBeforeHeaders(SubSeq(t, n + 1, Len(t)))
             ELSE <<Head(t)>> \o BreakBeforeHeaders(Tail(t))

(* .replace(/[bullet glyphs]/g, BULLET) *)
UnifyBullets(t) ==
    [i \in 1..Len(t) |-> IF t[i] \in {"BULLET", "MIDDOT"} THEN "BULLET" ELSE t[i]]

(* .replace(/[-*]\s/g, BULLET + ' ') *)
RECURSIVE DashBullets(_)
DashBullets(t) ==
    IF t = <<>> THEN <<>>
    ELSE IF Len(t) >= 2 /\ t[1] \in {"-", "*"} /\ IsSpace(t[2])
         THEN <<"BULLET", " ">> \o DashBullets(SubSeq(t, 3, Len(t)))
         ELSE <<Head(t)>> \o DashBullets(Tail(t))

(* .replace(/BULLET/g, '\n' + BULLET + ' ') *)
RECURSIVE SpaceBullets(_)
SpaceBullets(t) ==
    IF t = <<>> THEN <<>>
    ELSE IF Head(t) = "BULLET"
         THEN <<NL, "BULLET", " ">> \o SpaceBullets(Tail(t))
         ELSE <<Head(t)>> \o SpaceBullets(Tail(t))

(* .replace(/\n\s*\n\s*\n/g, '\n\n'): a match starts at a line feed and    *)
(* runs, through white space only, to the last line feed of that run of    *)
(* white space, which must hold three line feeds or more                   *)
RECURSIVE SqueezeBreaks(_)
SqueezeBreaks(t) ==
    IF t = <<>> THEN <<>>
    ELSE LET run == Len(t) - Len(DropSpace(t))
             feeds == {i \in 1..run : t[i] = NL}
             last == CHOOSE i \in feeds : \A j \in feeds : j <= i
         IN  IF Head(t) = NL /\ Cardinality(feeds) >= 3
             THEN <<NL, NL>> \o SqueezeBreaks(SubSeq(t, last + 1, Len(t)))
             ELSE <<Head(t)>> \o SqueezeBreaks(Tail(t))

(* .replace(/\n\n(responsibilities|...|about)/gi, ...): the header after   *)
(* two line feeds gets an upper-case first letter and a lower-case rest    *)
RECURSIVE CapitalizeHeaders(_)
CapitalizeHeaders(t) ==
    IF t = <<>> THEN <<>>
    ELSE LET rest == SubSeq(t, 3, Len(t))
             n == IF Len(t) >= 2 /\ t[1] = NL /\ t[2] = NL THEN HeaderAt(rest) ELSE 0
         IN  IF n > 0
             THEN <<NL, NL, ToUpperCase(rest[1])>>
                      \o [i \in 1..(n - 1) |-> ToLowerCase(rest[i + 1])]
                      \o CapitalizeHeaders(SubSeq(rest, n + 1, Len(rest)))
             ELSE <<Head(t)>> \o CapitalizeHeaders(Tail(t))

(* formatJobDescription *)
FormatJobDescription(description) ==
    IF description = <<>> THEN <<>>
    ELSE TrimSpace(CapitalizeHeaders(SqueezeBreaks(SpaceBullets(DashBullets(
             UnifyBullets(BreakBeforeHeaders(TrimSpace(CollapseSpace(description)))))))))

(***************************************************************************)
(* Record Validator and Duplicate Detector                                 *)
(***************************************************************************)
(* validateJobData: every text field trimmed, absent fields ''; throws     *)
(* when company and position are both empty                                *)
Sanitize(body) ==
    [company  |-> Trim(OrEmpty(body, "company")),
     position |-> Trim(OrEmpty(body, "position")),
     jobUrl   |-> Trim(OrEmpty(body, "jobUrl")),
     description |-> FormatJobDescription(OrEmpty(body, "description"))]

ValidateThrows(body) ==
    Sanitize(body).company = <<>> /\ Sanitize(body).position = <<>>

(* building the two RegExp objects of the duplicate query throws on an     *)
(* invalid pattern                                                         *)
QueryThrows(jobData) ==
    ~RegexValid(jobData.company) \/ ~RegexValid(jobData.position)

(* the filter of the duplicate query, evaluated on one stored document     *)
DuplicateFilter(d, jobData) ==
    /\ Has(d, "company") /\ RegexMatch(jobData.company, d.company)
    /\ Has(d, "position") /\ RegexMatch(jobData.position, d.position)
    /\ \/ Has(d, "jobUrl") /\ d.jobUrl = jobData.jobUrl
       \/ /\ ~Has(d, "jobUrl")
          /\ Has(d, "jobUrl") /\ d.jobUrl = <<>>

(* existingApp: the first stored document the query matches, or null *)
FindDuplicate(s, jobData) ==
    LET I == {i \in 1..Len(s) : DuplicateFilter(s[i], jobData)}
    IN  IF I = {} THEN Null ELSE s[Min(I)]

(***************************************************************************)
(* Store operations                                                        *)
(***************************************************************************)
InsertOne(s, d) == Append(s, d)

InsertMany(s, docs) == s \o docs

FindOneById(s, id) ==
    LET i == IndexOfId(s, id)
    IN  IF i = 0 THEN Null ELSE s[i]

(* every filter is taken to match a document *)
MatchedCount_AlwaysOne(s, id) == 1

MatchedCount(s, id) ==
    IF IndexOfId(s, id) = 0 THEN 0 ELSE 1

(* updateOne({ id }, { $set: { ...updates, updatedAt } }) *)
UpdateOne(s, id, updates, t) ==
    LET i == IndexOfId(s, id)
    IN  IF i = 0 THEN s
        ELSE [s EXCEPT ![i] = Merge(s[i], Merge(updates, [updatedAt |-> t]))]

(* deleteOne({ id }) *)
DeleteOne(s, id) ==
    LET i == IndexOfId(s, id)
    IN  IF i = 0 THEN s ELSE RemoveAt(s, i)

(***************************************************************************)
(* Reconciliation (sync)                                                   *)
(***************************************************************************)
(* every stored document is reported, listed by the client or not *)
NewApplications_All(all, frontend) == all

(* newApplications: the stored documents whose id the client did not list *)
NewApplications(all, frontend) ==
    FilterNotIn(all, IdSet(frontend), HasUndefinedId(frontend))

(* every client record is taken, known to the store or not *)
ApplicationsToAdd_NoFilter(all, frontend) == frontend

(* applicationsToAdd: the client records whose id is not a stored id *)
ApplicationsToAdd(all, frontend) ==
    FilterNotIn(frontend, IdSet(all), HasUndefinedId(all))

(* applicationsToAdd.map(app => ({ ...app, createdAt: now })) *)
Stamp(docs, t) == [i \in 1..Len(docs) |-> Merge(docs[i], [createdAt |-> t])]

(***************************************************************************)
(* Broadcast hub                                                           *)
(***************************************************************************)
Range(s) == {s[i] : i \in 1..Len(s)}

(* only the first client of wss.clients is served *)
Broadcast_FirstClientOnly(ib, cl, w, msg) ==
    [o \in DOMAIN ib |->
        IF cl # <<>> /\ o = cl[1] /\ w[o].readyState = "OPEN" THEN Append(ib[o], msg) ELSE ib[o]]

(* the loop ends at the first client that is not OPEN, as it would if the  *)
(* send to it threw                                                        *)
Broadcast_StopAtClosed(ib, cl, w, msg) ==
    [o \in DOMAIN ib |->
        IF \E i \in 1..Len(cl) :
               cl[i] = o /\ \A j \in 1..i : w[cl[j]].readyState = "OPEN"
        THEN Append(ib[o], msg) ELSE ib[o]]

(* broadcast(data): send to every client of wss.clients that is OPEN *)
Broadcast(ib, cl, w, msg) ==
    [o \in DOMAIN ib |->
        IF o \in Range(cl) /\ w[o].readyState = "OPEN" THEN Append(ib[o], msg) ELSE ib[o]]

(* the observers a broadcast reaches *)
OpenClients(cl, w) == {o \in Range(cl) : w[o].readyState = "OPEN"}

(***************************************************************************)
(* State machine                                                           *)
(***************************************************************************)
Idle == [pc |-> "idle"]

Init ==
    /\ store = <<>>
    /\ now = 0
    /\ nextUuid = 1
    /\ opCount = 0
    /\ req = [r \in Slots |-> Idle]
    /\ resp = [r \in Slots |-> [op |-> 0, kind |-> "none", status |-> 0]]
    /\ clients = <<>>
    /\ ws = [o \in Observers |->
                [readyState |-> "NONE", pc |-> "none", applications |-> <<>>, since |-> 0]]
    /\ inbox = [o \in Observers |-> <<>>]
    /\ published = <<>>

(* a request is taken by the first free slot, an observer by the first     *)
(* unused observer: which slot serves a request has no meaning in the code *)
Accept(r) ==
    /\ req[r].pc = "idle"
    /\ \A q \in Slots : q < r => req[q].pc # "idle"
    /\ opCount' = opCount + 1

Respond(r, kind, status, extra) ==
    resp' = [resp EXCEPT ![r] = Merge([op |-> opCount', kind |-> kind, status |-> status], extra)]

RespondFor(r, kind, status, extra) ==
    resp' = [resp EXCEPT ![r] = Merge([op |-> req[r].op, kind |-> kind, status |-> status], extra)]

(* publish one event: hand it to broadcast and record it *)
Publish(r, type, payload) ==
    LET ev == Len(published) + 1
        msg == Merge([type |-> type, ev |-> ev], payload)
    IN  /\ inbox' = Broadcast(inbox, clients, ws, msg)
        /\ published' = Append(published,
                               [type |-> type, op |-> req[r].op,
                                msg |-> msg,
                                to |-> OpenClients(clients, ws),
                                failed |-> Range(clients) \ OpenClients(clients, ws)])

(* POST /api/applications, up to the duplicate query: validate, build the  *)
(* new record, run findOne; 500 when validation or the query throws, 409   *)
(* when a stored document matches                                          *)
CreateCheck(r, body) ==
    /\ Accept(r)
    /\ UNCHANGED <<store, now, clients, ws, inbox, published>>
    /\ IF ValidateThrows(body)
       THEN /\ Respond(r, "create", 500, [body |-> body])
            /\ UNCHANGED <<req, nextUuid>>
       ELSE LET jobData == Sanitize(body)
                newApplication ==
                    Merge([id |-> nextUuid],
                          Merge(jobData, [createdAt |-> now, updatedAt |-> now]))
            IN  /\ nextUuid' = nextUuid + 1
                /\ IF QueryThrows(jobData)
                   THEN /\ Respond(r, "create", 500, [body |-> body])
                        /\ UNCHANGED req
                   ELSE IF ~IsNull(FindDuplicate(store, jobData))
                   THEN /\ Respond(r, "create", 409, [body |-> body])
                        /\ UNCHANGED req
                   ELSE /\ req' = [req EXCEPT ![r] =
                                      [pc |-> "createInsert", op |-> opCount',
                                       newApplication |-> newApplication]]
                        /\ UNCHANGED resp

(* insertOne(newApplication) takes effect *)
CreateInsert(r) ==
    /\ req[r].pc = "createInsert"
    /\ store' = InsertOne(store, req[r].newApplication)
    /\ req' = [req EXCEPT ![r].pc = "createFinish"]
    /\ UNCHANGED <<now, nextUuid, opCount, resp, clients, ws, inbox, published>>

(* after the insert: broadcast NEW_APPLICATION, respond *)
CreateFinish(r) ==
    /\ req[r].pc = "createFinish"
    /\ Publish(r, "NEW_APPLICATION", [application |-> req[r].newApplication])
    /\ RespondFor(r, "create", 200, [data |-> req[r].newApplication])
    /\ req' = [req EXCEPT ![r] = Idle]
    /\ UNCHANGED <<store, now, nextUuid, opCount, clients, ws>>

(* POST /api/applications/sync, up to the insertMany: read the store,      *)
(* compute both differences, stamp the records to add; responds at once    *)
(* when there is nothing to add                                            *)
SyncFind(r, frontendApplications) ==
    /\ Accept(r)
    /\ UNCHANGED <<store, now, nextUuid, clients, ws, inbox, published>>
    /\ LET allApplications == SortedFind(store)
           newApplications == NewApplications(allApplications, frontendApplications)
           applicationsToAdd == ApplicationsToAdd(allApplications, frontendApplications)
       IN  IF Len(applicationsToAdd) > 0
           THEN /\ req' = [req EXCEPT ![r] =
                              [pc |-> "syncInsert", op |-> opCount',
                               newApplications |-> newApplications,
                               docs |-> Stamp(applicationsToAdd, now)]]
                /\ UNCHANGED resp
           ELSE /\ Respond(r, "sync", 200,
                           [newApplications |-> newApplications, syncedCount |-> 0])
                /\ UNCHANGED req

(* the admitted records are announced to the observers as well *)
SyncInsert_Broadcasting(r) ==
    /\ req[r].pc = "syncInsert"
    /\ store' = InsertMany(store, req[r].docs)
    /\ Publish(r, "NEW_APPLICATION", [application |-> req[r].docs[1]])
    /\ RespondFor(r, "sync", 200,
                  [newApplications |-> req[r].newApplications,
                   syncedCount |-> Len(req[r].docs)])
    /\ req' = [req EXCEPT ![r] = Idle]
    /\ UNCHANGED <<now, nextUuid, opCount, clients, ws>>

(* insertMany takes effect, then the response *)
SyncInsert(r) ==
    /\ req[r].pc = "syncInsert"
    /\ store' = InsertMany(store, req[r].docs)
    /\ RespondFor(r, "sync", 200,
                  [newApplications |-> req[r].newApplications,
                   syncedCount |-> Len(req[r].docs)])
    /\ req' = [req EXCEPT ![r] = Idle]
    /\ UNCHANGED <<now, nextUuid, opCount, clients, ws, inbox, published>>

(* PUT /api/applications/:id, the updateOne: 404 when nothing matched *)
UpdateWrite(r, id, updates) ==
    /\ Accept(r)
    /\ UNCHANGED <<now, nextUuid, clients, ws, inbox, published>>
    /\ IF MatchedCount(store, id) = 0
       THEN /\ Respond(r, "update", 404, [error |-> "Application not found", id |-> id])
            /\ UNCHANGED <<store, req>>
       ELSE /\ store' = UpdateOne(store, id, updates, now)
            /\ req' = [req EXCEPT ![r] =
                          [pc |-> "updateRead", op |-> opCount', id |-> id,
                           updates |-> updates]]
            /\ UNCHANGED resp

(* the re-read: findOne({ id }) *)
UpdateRead(r) ==
    /\ req[r].pc = "updateRead"
    /\ req' = [req EXCEPT ![r] =
                  [pc |-> "updateFinish", op |-> req[r].op, id |-> req[r].id,
                   updates |-> req[r].updates,
                   updatedApplication |-> FindOneById(store, req[r].id)]]
    /\ UNCHANGED <<store, now, nextUuid, opCount, resp, clients, ws, inbox, published>>

(* broadcast APPLICATION_UPDATED, respond *)
UpdateFinish(r) ==
    /\ req[r].pc = "updateFinish"
    /\ Publish(r, "APPLICATION_UPDATED", [application |-> req[r].updatedApplication])
    /\ RespondFor(r, "update", 200, [data |-> req[r].updatedApplication])
    /\ req' = [req EXCEPT ![r] = Idle]
    /\ UNCHANGED <<store, now, nextUuid, opCount, clients, ws>>

(* DELETE /api/applications/:id, the deleteOne: 404 when nothing deleted *)
DeleteWrite(r, id) ==
    /\ Accept(r)
    /\ UNCHANGED <<now, nextUuid, clients, ws, inbox, published>>
    /\ IF MatchedCount(store, id) = 0
       THEN /\ Respond(r, "delete", 404, [error |-> "Application not found", id |-> id])
            /\ UNCHANGED <<store, req>>
       ELSE /\ store' = DeleteOne(store, id)
            /\ req' = [req EXCEPT ![r] = [pc |-> "deleteFinish", op |-> opCount', id |-> id]]
            /\ UNCHANGED resp

(* broadcast APPLICATION_DELETED, respond *)
DeleteFinish(r) ==
    /\ req[r].pc = "deleteFinish"
    /\ Publish(r, "APPLICATION_DELETED", [applicationId |-> req[r].id])
    /\ RespondFor(r, "delete", 200, [message |-> "Application deleted successfully"])
    /\ req' = [req EXCEPT ![r] = Idle]
    /\ UNCHANGED <<store, now, nextUuid, opCount, clients, ws>>

(* the server clock advances *)
Tick ==
    /\ now < MaxTime
    /\ now' = now + 1
    /\ UNCHANGED <<store, nextUuid, opCount, req, resp, clients, ws, inbox, published>>

(* a WebSocket connects: it is in wss.clients and OPEN when the            *)
(* 'connection' handler starts                                             *)
Connect(o) ==
    /\ ws[o].readyState = "NONE"
    /\ \A q \in Observers : q < o => ws[q].readyState # "NONE"
    /\ clients' = Append(clients, o)
    /\ ws' = [ws EXCEPT ![o] = [readyState |-> "OPEN", pc |-> "find",
                                applications |-> <<>>, since |-> Len(published)]]
    /\ UNCHANGED <<store, now, nextUuid, opCount, req, resp, inbox, published>>

(* the handler's find({}).sort({ createdAt: -1 }) takes effect *)
ObsFind(o) ==
    /\ ws[o].pc = "find"
    /\ ws' = [ws EXCEPT ![o].pc = "send", ![o].applications = SortedFind(store)]
    /\ UNCHANGED <<store, now, nextUuid, opCount, req, resp, clients, inbox, published>>

(* ws.send(INITIAL_DATA) on an open socket *)
ObsSend(o) ==
    /\ ws[o].pc = "send"
    /\ ws[o].readyState = "OPEN"
    /\ ws' = [ws EXCEPT ![o].pc = "done"]
    /\ inbox' = [inbox EXCEPT ![o] =
                    Append(@, [type |-> "INITIAL_DATA", applications |-> ws[o].applications])]
    /\ UNCHANGED <<store, now, nextUuid, opCount, req, resp, clients, published>>

(* the peer closes or the connection breaks: the socket leaves OPEN.  It   *)
(* stays in wss.clients until its 'close' event; broadcast, the only       *)
(* reader of wss.clients, skips it from now on either way, so the later    *)
(* removal changes nothing any handler can see and has no action.  What is *)
(* left of the socket's connection handler (the find, a send that reaches  *)
(* nobody, the catch) changes no shared state either and ends here.        *)
Close(o) ==
    /\ ws[o].readyState = "OPEN"
    /\ ws' = [ws EXCEPT ![o].readyState = "CLOSING", ![o].pc = "done",
                        ![o].applications = <<>>]
    /\ UNCHANGED <<store, now, nextUuid, opCount, req, resp, clients, inbox, published>>

(***************************************************************************)
(* Inputs                                                                  *)
(***************************************************************************)
(* identifiers a client makes up itself, outside the range of uuidv4 *)
ClientIds == {101, 102}

(* request bodies of create *)
Bodies ==
    {[company |-> <<"a">>, position |-> <<"p">>],
     [company |-> <<" ", "A">>, position |-> <<"P">>, jobUrl |-> <<>>],
     [company |-> <<"a">>, position |-> <<"p">>, jobUrl |-> <<"u">>],
     [company |-> <<"a">>, position |-> <<"p">>, jobUrl |-> <<"v">>],
     [company |-> <<".">>, position |-> <<"p">>],
     [company |-> <<"a", "?">>, position |-> <<"p">>],
     [company |-> <<"a">>, position |-> <<"?">>],
     [company |-> <<" ">>]}

(* the records of client snapshots: ids the client made up (101, 102) and *)
(* an id the server issued (1), with or without a jobUrl; 102 carries the *)
(* time stamps the client gave it                                         *)
C101 == [id |-> 101, company |-> <<"a">>, position |-> <<"p">>]
C102 ==
    [id |-> 102, company |-> <<"A">>, position |-> <<"p">>,
     createdAt |-> 0, updatedAt |-> 0]
C101u == [id |-> 101, company |-> <<"a">>, position |-> <<"p">>, jobUrl |-> <<"u">>]
C1u == [id |-> 1, company |-> <<"a">>, position |-> <<"p">>, jobUrl |-> <<"u">>]

(* client snapshots: empty, one record, two records that are identity-     *)
(* duplicates under different ids, the same id listed twice, a record the *)
(* server issued alone and next to a client-made one                       *)
Snapshots ==
    {<<>>, <<C101>>, <<C102>>, <<C101, C102>>, <<C101, C101u>>, <<C1u>>, <<C1u, C102>>}

(* a client can list the ids it made up and the ids the server has issued *)
KnownSnapshots ==
    {q \in Snapshots : IdSet(q) \subseteq ClientIds \cup 1..(nextUuid - 1)}

(* partial updates of PUT *)
Updates ==
    {[company |-> <<"A">>],
     [jobUrl |-> <<"v">>],
     [id |-> 101]}

(* ids a caller can name: those of stored records and one of its own *)
TargetIds == IdSet(store) \cup {102}

(* inputs of the runs with observers connected *)
HubBodies == {[company |-> <<"b">>, position |-> <<"p">>]}

HubUpdates == {[company |-> <<"b">>]}

HubSnapshots == {<<C101>>}

(* with observers connected, callers name the ids of stored records *)
HubTargetIds == IdSet(store)

(***************************************************************************)
(* Specifications                                                          *)
(***************************************************************************)
(* no request is in flight *)
Quiet == \A r \in Slots : req[r].pc = "idle"

(* the server started on a collection that already holds one record, the  *)
(* result of an earlier create                                            *)
StoredBefore ==
    [id |-> 1, company |-> <<"a">>, position |-> <<"p">>, jobUrl |-> <<>>,
     description |-> <<>>, createdAt |-> 0, updatedAt |-> 0]

InitHub ==
    /\ store = <<StoredBefore>>
    /\ now = 0
    /\ nextUuid = 2
    /\ opCount = 0
    /\ req = [r \in Slots |-> Idle]
    /\ resp = [r \in Slots |-> [op |-> 0, kind |-> "none", status |-> 0]]
    /\ clients = <<>>
    /\ ws = [o \in Observers |->
                [readyState |-> "NONE", pc |-> "none", applications |-> <<>>, since |-> 0]]
    /\ inbox = [o \in Observers |-> <<>>]
    /\ published = <<>>

(* one request at a time, interleaved at its await points with the         *)
(* observers' connection handlers and closes                               *)
Next ==
    \/ \E r \in Slots : \E body \in HubBodies : Quiet /\ opCount < MaxHubOps /\ CreateCheck(r, body)
    \/ \E r \in Slots : CreateInsert(r)
    \/ \E r \in Slots : CreateFinish(r)
    \/ \E r \in Slots : \E snap \in HubSnapshots : Quiet /\ opCount < MaxHubOps /\ SyncFind(r, snap)
    \/ \E r \in Slots : SyncInsert(r)
    \/ \E r \in Slots : \E id \in HubTargetIds : \E u \in HubUpdates : Quiet /\ opCount < MaxHubOps /\ UpdateWrite(r, id, u)
    \/ \E r \in Slots : UpdateRead(r)
    \/ \E r \in Slots : UpdateFinish(r)
    \/ \E r \in Slots : \E id \in HubTargetIds : Quiet /\ opCount < MaxHubOps /\ DeleteWrite(r, id)
    \/ \E r \in Slots : DeleteFinish(r)
    \/ \E o \in Observers : Connect(o)
    \/ \E o \in Observers : ObsFind(o)
    \/ \E o \in Observers : ObsSend(o)
    \/ \E o \in Observers : Close(o)

Spec == InitHub /\ [][Next]_vars

(* one request at a time, no observer connected, the full input sets *)
NextStore ==
    \/ \E r \in Slots : \E body \in Bodies : Quiet /\ opCount < MaxOps /\ CreateCheck(r, body)
    \/ \E r \in Slots : CreateInsert(r)
    \/ \E r \in Slots : CreateFinish(r)
    \/ \E r \in Slots : \E snap \in KnownSnapshots : Quiet /\ opCount < MaxOps /\ SyncFind(r, snap)
    \/ \E r \in Slots : SyncInsert(r)
    \/ \E r \in Slots : \E id \in TargetIds : \E u \in Updates : Quiet /\ opCount < MaxOps /\ UpdateWrite(r, id, u)
    \/ \E r \in Slots : UpdateRead(r)
    \/ \E r \in Slots : UpdateFinish(r)
    \/ \E r \in Slots : \E id \in TargetIds : Quiet /\ opCount < MaxOps /\ DeleteWrite(r, id)
    \/ \E r \in Slots : DeleteFinish(r)
    \/ Tick

SpecStore == Init /\ [][NextStore]_vars

(***************************************************************************)
(* Identity of records                                                     *)
(***************************************************************************)
JobUrlOf(d) == IF Has(d, "jobUrl") THEN d.jobUrl ELSE <<>>

(* identity-duplicates: company and position equal up to letter case, and  *)
(* equal jobUrl, an absent jobUrl counting as the empty one                *)
IdentityDup(a, b) ==
    /\ LowerText(a.company) = LowerText(b.company)
    /\ LowerText(a.position) = LowerText(b.position)
    /\ JobUrlOf(a) = JobUrlOf(b)

DupInStore(s, d) == \E i \in 1..Len(s) : IdentityDup(s[i], d)

(* one whole sync call with nothing in between its read and its insert *)
SyncRun(s, frontend, t) ==
    LET all == SortedFind(s)
        toAdd == ApplicationsToAdd(all, frontend)
    IN  [store |-> IF Len(toAdd) > 0 THEN InsertMany(s, Stamp(toAdd, t)) ELSE s,
         syncedCount |-> Len(toAdd),
         newApplications |-> NewApplications(all, frontend)]

(***************************************************************************)
(* Requests in flight together                                             *)
(***************************************************************************)
(* two updates that disagree on a field *)
RaceUpdates == {[company |-> <<"b">>], [company |-> <<"c">>]}

(* the store holds one record and observer 1 has connected, has run its    *)
(* find and has been sent INITIAL_DATA                                     *)
InitRace ==
    /\ store = <<StoredBefore>>
    /\ now = 0
    /\ nextUuid = 2
    /\ opCount = 0
    /\ req = [r \in Slots |-> Idle]
    /\ resp = [r \in Slots |-> [op |-> 0, kind |-> "none", status |-> 0]]
    /\ clients = <<1>>
    /\ ws = [o \in Observers |->
                IF o = 1
                THEN [readyState |-> "OPEN", pc |-> "done",
                      applications |-> <<StoredBefore>>, since |-> 0]
                ELSE [readyState |-> "NONE", pc |-> "none",
                      applications |-> <<>>, since |-> 0]]
    /\ inbox = [o \in Observers |->
                   IF o = 1
                   THEN <<[type |-> "INITIAL_DATA", applications |-> <<StoredBefore>>]>>
                   ELSE <<>>]
    /\ published = <<>>

(* a request is accepted while another is between two of its awaits; the   *)
(* event loop runs the steps of the handlers in any order                  *)
NextRace ==
    \/ \E r \in Slots : \E body \in HubBodies : opCount < MaxOps /\ CreateCheck(r, body)
    \/ \E r \in Slots : CreateInsert(r)
    \/ \E r \in Slots : CreateFinish(r)
    \/ \E r \in Slots : \E id \in HubTargetIds : \E u \in RaceUpdates :
          opCount < MaxOps /\ UpdateWrite(r, id, u)
    \/ \E r \in Slots : UpdateRead(r)
    \/ \E r \in Slots : UpdateFinish(r)
    \/ \E r \in Slots : \E id \in HubTargetIds : opCount < MaxOps /\ DeleteWrite(r, id)
    \/ \E r \in Slots : DeleteFinish(r)

SpecRace == InitRace /\ [][NextRace]_vars

(***************************************************************************)
(* Creates that carry a description                                        *)
(***************************************************************************)
(* descriptions a caller sends: none, plain text with runs of white space, *)
(* a dash bullet inside and at the start of the text, bullet glyphs, a     *)
(* section header inside a word, at the start and after line feeds         *)
Descriptions ==
    {<<>>,
     <<" ", "a", " ", "\t", "b", " ">>,
     <<"a", "-", " ", "b">>,
     <<"-", " ", "a">>,
     <<"x", "BULLET", "y">>,
     <<"MIDDOT", "x">>,
     <<"x", "A", "B", "O", "U", "T", " ", "u", "s">>,
     <<"a", "b", "o", "u", "t", " ", "u", "s">>,
     <<"x", NL, NL, NL, NL, "s", "k", "i", "l", "l", "s">>}

DescribedBodies ==
    {[company |-> c, position |-> <<"p">>, description |-> d] :
        c \in {<<"a">>, <<"b">>}, d \in Descriptions}

NextDescribed ==
    \/ \E r \in Slots, body \in DescribedBodies :
          Quiet /\ opCount < MaxOps /\ CreateCheck(r, body)
    \/ \E r \in Slots : CreateInsert(r)
    \/ \E r \in Slots : CreateFinish(r)

SpecDescribed == Init /\ [][NextDescribed]_vars

(***************************************************************************)
(* Store claims (SpecStore)                                                *)
(***************************************************************************)
(* C1: no two distinct stored records are identity-duplicates of each      *)
(* other, in any state reached from the empty store.                       *)
C1_NoIdentityDuplicates ==
    \A i, j \in 1..Len(store) : i # j => ~IdentityDup(store[i], store[j])

(* C2: no two stored records carry the same id. *)
C2_UniqueIds ==
    \A i, j \in 1..Len(store) :
        (i # j /\ Has(store[i], "id") /\ Has(store[j], "id")) => store[i].id # store[j].id

(* C3: sync is idempotent: run twice in a row on the same snapshot, from   *)
(* any reachable store, the second run admits nothing and leaves the store *)
(* as the first run left it.                                               *)
C3_SyncIdempotent ==
    \A snap \in KnownSnapshots :
        LET first == SyncRun(store, snap, now)
            second == SyncRun(first.store, snap, now)
        IN  second.syncedCount = 0 /\ second.store = first.store

(* a second sync in a row answered 0 for a snapshot the first had admitted *)
C3_Witness ==
    /\ Quiet
    /\ resp[1].kind = "sync" /\ resp[1].op = 2 /\ resp[1].syncedCount = 0
    /\ resp[1].newApplications = <<>>
    /\ 101 \in IdSet(store)

(* C4: sync admits a client record only if it is not an identity-duplicate *)
(* of a stored record nor of a record admitted earlier in the same batch.  *)
C4_SyncSkipsDuplicates ==
    [][\A r \in Slots :
          (req[r].pc = "syncInsert" /\ req'[r].pc = "idle") =>
              \A k \in 1..Len(req[r].docs) :
                  /\ ~DupInStore(store, req[r].docs[k])
                  /\ \A j \in 1..(k - 1) : ~IdentityDup(req[r].docs[j], req[r].docs[k])]_vars

(* C9: a create whose validated payload is an identity-duplicate of a      *)
(* stored record is answered 409, and a 409 leaves the store and the       *)
(* published events as they were.                                          *)
C9_DuplicateCreateConflicts ==
    [][\A r \in Slots :
          /\ (req[r].pc = "idle" /\ req'[r].pc = "createInsert")
                => ~DupInStore(store, req'[r].newApplication)
          /\ (req[r].pc = "idle" /\ resp'[r] # resp[r] /\ resp'[r].kind = "create"
              /\ ~ValidateThrows(resp'[r].body)
              /\ DupInStore(store, Sanitize(resp'[r].body)))
                => resp'[r].status = 409
          /\ (resp'[r] # resp[r] /\ resp'[r].status = 409)
                => (store' = store /\ published' = published)]_vars

(* the match rule of the Duplicate Detector *)
MatchRule(d, c) ==
    /\ LowerText(d.company) = LowerText(c.company)
    /\ LowerText(d.position) = LowerText(c.position)
    /\ \/ Has(d, "jobUrl") /\ d.jobUrl = c.jobUrl
       \/ JobUrlOf(d) = <<>> /\ c.jobUrl = <<>>

(* C10: create reports a conflict exactly when some stored record matches  *)
(* the candidate under the match rule.                                     *)
C10_DecisionIsMatchRule ==
    \A body \in Bodies :
        ~ValidateThrows(body) =>
            LET jobData == Sanitize(body)
            IN  (~QueryThrows(jobData) /\ ~IsNull(FindDuplicate(store, jobData)))
                    <=> (\E i \in 1..Len(store) : MatchRule(store[i], jobData))

(***************************************************************************)
(* Broadcast hub claims (Spec)                                             *)
(***************************************************************************)
IsSnapshot(m) == m.type = "INITIAL_DATA"

(* number of times observer o was delivered published event k *)
Deliveries(o, k) ==
    Cardinality({j \in 1..Len(inbox[o]) : ~IsSnapshot(inbox[o][j]) /\ inbox[o][j].ev = k})

DeliveredAfterSnapshot(o, k) ==
    \E j, n \in 1..Len(inbox[o]) :
        /\ j < n
        /\ IsSnapshot(inbox[o][j])
        /\ ~IsSnapshot(inbox[o][n]) /\ inbox[o][n].ev = k

(* the effect of an event is visible in a record list *)
Reflected(msg, apps) ==
    IF msg.type = "APPLICATION_DELETED"
    THEN msg.applicationId \notin IdSet(apps)
    ELSE \E i \in 1..Len(apps) : apps[i] = msg.application

(* C5: an observer receives its INITIAL_DATA before any mutation event,    *)
(* and a mutation published after its registration began is in the         *)
(* snapshot or delivered after it.                                         *)
C5_SnapshotBeforeEvents ==
    \A o \in Observers :
        /\ inbox[o] # <<>> => IsSnapshot(inbox[o][1])
        /\ (ws[o].pc = "done" /\ ws[o].readyState = "OPEN") =>
              \A k \in 1..Len(published) :
                  (k > ws[o].since /\ o \in published[k].to) =>
                      \/ DeliveredAfterSnapshot(o, k)
                      \/ Reflected(published[k].msg, ws[o].applications)

(* C6: a registered observer gets exactly one INITIAL_DATA, listing the    *)
(* store's records as they are when it is sent, and no event published     *)
(* before its registration began.                                          *)
C6_OneCurrentSnapshot ==
    [][\A o \in Observers :
          /\ Cardinality({j \in 1..Len(inbox'[o]) : IsSnapshot(inbox'[o][j])}) <= 1
          /\ (ws'[o].pc = "done" /\ ws'[o].readyState = "OPEN") =>
                Cardinality({j \in 1..Len(inbox'[o]) : IsSnapshot(inbox'[o][j])}) = 1
          /\ \A j \in 1..Len(inbox'[o]) :
                ~IsSnapshot(inbox'[o][j]) => inbox'[o][j].ev > ws'[o].since
          /\ (ws[o].pc = "send" /\ ws'[o].pc = "done" /\ ws[o].readyState = "OPEN") =>
                ws[o].applications = SortedFind(store)]_vars

EventType(kind) ==
    IF kind = "create" THEN "NEW_APPLICATION"
    ELSE IF kind = "update" THEN "APPLICATION_UPDATED"
    ELSE "APPLICATION_DELETED"

(* C7: a successful create, update or delete has published exactly one     *)
(* event, of its type; every observer that was in wss.clients and OPEN at  *)
(* the publish holds exactly one copy of it, and nobody holds two.         *)
C7_PublishedOnceDeliveredOnce ==
    /\ \A r \in Slots :
          (resp[r].status = 200 /\ resp[r].kind \in {"create", "update", "delete"}) =>
              /\ Cardinality({k \in 1..Len(published) : published[k].op = resp[r].op}) = 1
              /\ \A k \in 1..Len(published) :
                    published[k].op = resp[r].op => published[k].type = EventType(resp[r].kind)
    /\ \A k \in 1..Len(published) : \A o \in Observers :
          /\ Deliveries(o, k) <= 1
          /\ o \in published[k].to => Deliveries(o, k) = 1

(* an event went out to two open observers *)
C7_Witness ==
    \E k \in 1..Len(published) :
        /\ Cardinality(published[k].to) >= 2
        /\ \E r \in Slots : resp[r].op = published[k].op /\ resp[r].status = 200

(* C8: when the delivery to one observer of wss.clients fails (its socket  *)
(* is no longer OPEN), every other open observer still holds the event     *)
(* and the request that published it is answered with success.             *)
C8_FailureIsolated ==
    \A k \in 1..Len(published) :
        published[k].failed # {} =>
            /\ \A o \in published[k].to : Deliveries(o, k) >= 1
            /\ \A r \in Slots : resp[r].op = published[k].op => resp[r].status = 200

(* an event went out while one client was closing and another was open *)
C8_Witness ==
    \E k \in 1..Len(published) :
        /\ published[k].failed # {}
        /\ published[k].to # {}
        /\ \E r \in Slots : resp[r].op = published[k].op /\ resp[r].status = 200

(***************************************************************************)
(* Update and delete of an id the store does not hold                      *)
(***************************************************************************)
(* a request of the given kind for an id with no stored record is answered *)
(* in this step with status 404                                            *)
AnsweredNotFound(r) ==
    /\ resp'[r] # resp[r]
    /\ resp'[r].kind \in {"update", "delete"}
    /\ resp'[r].status = 404

(* an update or delete is taken past its write in this step *)
WriteTaken(r) ==
    /\ req[r].pc = "idle"
    /\ req'[r].pc \in {"updateRead", "deleteFinish"}

(* C11: an update or a delete that targets an id with no stored record is  *)
(* answered not-found, leaves the store unchanged and publishes no event:  *)
(* a not-found answer is given only for an id the store does not hold and  *)
(* changes neither the store nor what observers were sent, and a request   *)
(* that goes on to write targets an id the store holds.                    *)
C11_MissingIdNotFound ==
    [][\A r \in Slots :
          /\ AnsweredNotFound(r) =>
                /\ resp'[r].id \notin IdSet(store)
                /\ store' = store
                /\ published' = published
                /\ inbox' = inbox
          /\ WriteTaken(r) => req'[r].id \in IdSet(store)]_vars

(* while the store held a record, a request for an id it does not hold    *)
(* was answered not-found                                                  *)
C11_Witness ==
    /\ store # <<>>
    /\ \E r \in Slots : /\ resp[r].kind \in {"update", "delete"}
                         /\ resp[r].status = 404
                         /\ resp[r].id \notin IdSet(store)

(***************************************************************************)
(* What sync reports back                                                  *)
(***************************************************************************)
(* the positions of a list holding a given document *)
Occurrences(s, d) == {k \in 1..Len(s) : s[k] = d}

(* C12: the missingFromClient list of a sync is exactly the records the    *)
(* store held before the sync whose id is not among the client's ids, each *)
(* once, newest createdAt first; no record the same sync admits is in it.  *)
C12_MissingFromClient ==
    \A snap \in KnownSnapshots :
        LET out == SyncRun(store, snap, now)
            missing == out.newApplications
            Unlisted == {i \in 1..Len(store) : store[i].id \notin IdSet(snap)}
            admitted == SubSeq(out.store, Len(store) + 1, Len(out.store))
        IN  /\ Len(missing) = Cardinality(Unlisted)
            /\ \A i \in Unlisted :
                  Cardinality(Occurrences(missing, store[i])) =
                      Cardinality(Occurrences(store, store[i]) \cap Unlisted)
            /\ \A k \in 1..Len(missing) :
                  /\ missing[k] \in Range(store)
                  /\ missing[k].id \notin IdSet(snap)
                  /\ missing[k] \notin Range(admitted)
            /\ \A k \in 1..Len(missing) - 1 :
                  missing[k].createdAt >= missing[k + 1].createdAt

(* a sync admitted a record and reported back a stored record the client   *)
(* had not listed                                                          *)
C12_Witness ==
    \E r \in Slots :
        /\ resp[r].kind = "sync"
        /\ resp[r].syncedCount >= 1
        /\ Len(resp[r].newApplications) >= 1
        /\ resp[r].newApplications[1] \in Range(store)

(***************************************************************************)
(* Time stamps                                                             *)
(***************************************************************************)
(* the documents a step appends to the store *)
Appended == SubSeq(store', Len(store) + 1, Len(store'))

(* C13: every record a sync admits is stored with createdAt and updatedAt  *)
(* both set to the server's time of the admission; the time stamps the     *)
(* client sent are not kept.                                               *)
C13_SyncStampsBoth ==
    [][\A r \in Slots :
          req[r].pc = "syncInsert" /\ req'[r].pc = "idle" =>
              \A k \in 1..Len(Appended) :
                  /\ Has(Appended[k], "createdAt")
                  /\ Has(Appended[k], "updatedAt")
                  /\ Appended[k].createdAt = req[r].docs[k].createdAt
                  /\ Appended[k].updatedAt = Appended[k].createdAt]_vars

(* C14: every stored record has createdAt <= updatedAt, in every state.    *)
C14_CreatedBeforeUpdated ==
    \A i \in 1..Len(store) :
        /\ Has(store[i], "createdAt")
        /\ Has(store[i], "updatedAt")
        /\ store[i].createdAt <= store[i].updatedAt

(***************************************************************************)
(* Update                                                                  *)
(***************************************************************************)
(* C15: an update changes neither the id nor the createdAt of any stored   *)
(* record, even when the payload holds those fields, and changes no record *)
(* but the one it targets.                                                 *)
C15_UpdateKeepsIdAndCreatedAt ==
    [][\A r \in Slots :
          req[r].pc = "idle" /\ req'[r].pc = "updateRead" =>
              /\ Len(store') = Len(store)
              /\ \A i \in 1..Len(store) :
                    /\ Has(store'[i], "id") = Has(store[i], "id")
                    /\ Has(store[i], "id") => store'[i].id = store[i].id
                    /\ Has(store'[i], "createdAt") = Has(store[i], "createdAt")
                    /\ Has(store[i], "createdAt") =>
                          store'[i].createdAt = store[i].createdAt
                    /\ i # IndexOfId(store, req'[r].id) => store'[i] = store[i]]_vars

(***************************************************************************)
(* Description Normalizer (SpecDescribed)                                  *)
(***************************************************************************)
(* C16: the normalizer is idempotent: normalizing a description that is    *)
(* already normalized, as every stored description of a created record is, *)
(* returns it unchanged; and the empty description is normalized to the    *)
(* empty description.                                                      *)
C16_NormalizerIdempotent ==
    /\ FormatJobDescription(<<>>) = <<>>
    /\ \A i \in 1..Len(store) :
          Has(store[i], "description") =>
              FormatJobDescription(store[i].description) = store[i].description

(***************************************************************************)
(* Requests in flight together (SpecRace)                                  *)
(***************************************************************************)
(* no update has written to the store so far *)
NoUpdateInvolved ==
    /\ \A r \in Slots : req[r].pc \notin {"updateRead", "updateFinish"}
    /\ \A k \in 1..Len(published) : published[k].type # "APPLICATION_UPDATED"

(* C17: from a store without identity-duplicates, creates in flight at the *)
(* same time, their duplicate checks and inserts interleaved in any order  *)
(* and no sync or update involved, leave the store without identity-       *)
(* duplicates: of the creates with one identity at most one is stored.     *)
C17_ConcurrentCreatesNoDuplicate ==
    NoUpdateInvolved =>
        \A i, j \in 1..Len(store) : i # j => ~IdentityDup(store[i], store[j])

(* C18: when an update matched a stored record, the record it returns and  *)
(* the record its APPLICATION_UPDATED event carries is a record, not null, *)
(* with the requested id and with the supplied updates in its fields.      *)
C18_UpdateReturnsTheRecord ==
    [][\A r \in Slots :
          req[r].pc = "updateFinish" /\ req'[r].pc = "idle" =>
              LET returned == resp'[r].data
                  carried == published'[Len(published')].msg.application
              IN  /\ ~IsNull(returned)
                  /\ carried = returned
                  /\ returned.id = req[r].id
                  /\ \A f \in DOMAIN req[r].updates :
                        Has(returned, f) /\ returned[f] = req[r].updates[f]]_vars

(* what an observer makes of one message: INITIAL_DATA replaces its record *)
(* set, NEW_APPLICATION adds a record, APPLICATION_UPDATED replaces the    *)
(* record of that id, APPLICATION_DELETED removes it                       *)
ApplyEvent(view, m) ==
    IF m.type = "INITIAL_DATA" THEN Range(m.applications)
    ELSE IF m.type = "NEW_APPLICATION" THEN view \cup {m.application}
    ELSE IF m.type = "APPLICATION_UPDATED"
         THEN IF IsNull(m.application) THEN view
              ELSE {IF v.id = m.application.id THEN m.application ELSE v : v \in view}
    ELSE {v \in view : v.id # m.applicationId}

RECURSIVE ApplyEvents(_, _)
ApplyEvents(view, msgs) ==
    IF msgs = <<>> THEN view
    ELSE ApplyEvents(ApplyEvent(view, Head(msgs)), Tail(msgs))

ObserverView(o) == ApplyEvents({}, inbox[o])

(* C19: for an observer that stays open, with no sync admission, once      *)
(* every create, update and delete in flight has completed, the record set *)
(* the observer gets by applying the events delivered to it, in delivery   *)
(* order, to its INITIAL_DATA snapshot is the record set of the store,     *)
(* whatever the interleaving of the requests was.                          *)
C19_ViewsConverge ==
    \A o \in Observers :
        Quiet /\ ws[o].readyState = "OPEN" /\ ws[o].pc = "done" =>
            ObserverView(o) = Range(store)

(***************************************************************************)
(* Sync and the observers (Spec)                                           *)
(***************************************************************************)
(* a step of a sync call: its find with the answer or the hand-over to the *)
(* insert, or its insertMany with the answer                               *)
SyncStep(r) ==
    \/ req[r].pc = "idle" /\ req'[r].pc = "syncInsert"
    \/ req[r].pc = "syncInsert" /\ req'[r].pc = "idle"
    \/ resp'[r] # resp[r] /\ resp'[r].kind = "sync"

(* C20: a sync call broadcasts no event to any observer, however many      *)
(* records it admits: its steps leave what was published and what every    *)
(* observer was sent unchanged, and change nothing but the store, by       *)
(* appending the admitted records, and the call's own response.            *)
C20_SyncBroadcastsNothing ==
    [][\A r \in Slots :
          SyncStep(r) =>
              /\ published' = published
              /\ inbox' = inbox
              /\ \/ store' = store
                 \/ req[r].pc = "syncInsert" /\ store' = store \o req[r].docs
              /\ UNCHANGED <<clients, ws, now, nextUuid>>
              /\ \A q \in Slots \ {r} : resp'[q] = resp[q] /\ req'[q] = req[q]]_vars

(* a sync admitted a record while an observer was open and had its         *)
(* snapshot, and nothing was published                                     *)
C20_Witness ==
    /\ \E r \in Slots : resp[r].kind = "sync" /\ resp[r].syncedCount >= 1
    /\ \E o \in Observers :
          /\ ws[o].readyState = "OPEN" /\ ws[o].pc = "done"
          /\ Len(inbox[o]) = 1
          /\ Len(ws[o].applications) < Len(store)
    /\ published = <<>>

====
